---- MODULE Spec2Model ----
(***************************************************************************)
(* A model of the CO2 tracker plugin (.opencode/plugins/co2-tracker.ts):   *)
(* the per-session accumulator fed by `message.updated` events, the        *)
(* co2_report tool, and the pure functions they use (classifyModel,        *)
(* getGridIntensity, computeCO2, getEcoGrade).                             *)
(*                                                                         *)
(* Number representation.  Token counts are integers.  A JavaScript number *)
(* that may carry a fraction (grid intensity, kWh, grams of CO2) is a      *)
(* record [kind |-> "fin", mant |-> m, scale |-> s] standing for m * 10^-s,*)
(* or [kind |-> "inf"], [kind |-> "-inf"], [kind |-> "nan"].  Arithmetic   *)
(* on these is exact: the rounding of IEEE doubles is not modelled.  The   *)
(* provider's cost is counted in whole units of the smallest amount the    *)
(* host reports.                                                           *)
(***************************************************************************)
EXTENDS Integers, Sequences, FiniteSets, TLC

VARIABLES
    sessions,          \* Map<sessionID, SessionStats>
    messageSnapshots,  \* Map<`${sessionID}:${id}`, snapshot>
    gridEnv,           \* process.env.OPENCODE_CO2_GRID_INTENSITY
    clock,             \* Date.now(), advanced by one per delivered event
    lastEvent,         \* the event handled last (history variable)
    isDup,             \* the event handled last repeated the one before it
    wentBelow,         \* the update handled last had a field below the stored one
    lastSnap,          \* per (session, message): the usage last applied
    response,          \* what co2_report.execute returned, if it ran last
    probe              \* arguments and results of a pure-function call

vars == <<sessions, messageSnapshots, gridEnv, clock, lastEvent, isDup,
          wentBelow, lastSnap, response, probe>>

-----------------------------------------------------------------------------
(* JavaScript values *)

Undefined == [kind |-> "undefined"]

\* the finite number m * 10^-s / d, written Fin(m, s) when d = 1
Rat(m, s, d) == [kind |-> "fin", mant |-> m, scale |-> s, den |-> d]

Fin(m, s) == Rat(m, s, 1)

PosInfinity == [kind |-> "inf"]

NegInfinity == [kind |-> "-inf"]

NaN == [kind |-> "nan"]

RECURSIVE Pow10(_)
Pow10(n) == IF n = 0 THEN 1 ELSE 10 * Pow10(n - 1)

\* isNaN(x)
IsNaN(x) == x.kind = "nan"

\* x > 0
GtZero(x) ==
    \/ x.kind = "inf"
    \/ x.kind = "fin" /\ x.mant > 0

\* the finite number x brought to the scale and the divisor it shares with y
Scaled(x, y) ==
    x.mant * y.den * Pow10(IF y.scale > x.scale THEN y.scale - x.scale ELSE 0)

\* x === y on numbers (NaN equals nothing)
NumEq(x, y) ==
    \/ x.kind = "inf" /\ y.kind = "inf"
    \/ x.kind = "-inf" /\ y.kind = "-inf"
    \/ /\ x.kind = "fin"
       /\ y.kind = "fin"
       /\ Scaled(x, y) = Scaled(y, x)

\* x <= y on numbers (false when either is NaN)
Leq(x, y) ==
    \/ x.kind = "-inf" /\ y.kind # "nan"
    \/ y.kind = "inf" /\ x.kind # "nan"
    \/ /\ x.kind = "fin"
       /\ y.kind = "fin"
       /\ Scaled(x, y) <= Scaled(y, x)

\* x < y on numbers (false when either is NaN)
Less(x, y) == Leq(x, y) /\ ~NumEq(x, y)

\* the sign of a number that is not NaN: -1, 0 or 1
Sign(x) ==
    CASE x.kind = "inf" -> 1
      [] x.kind = "-inf" -> -1
      [] OTHER -> IF x.mant > 0 THEN 1 ELSE IF x.mant < 0 THEN -1 ELSE 0

\* x * y on numbers
Mul(x, y) ==
    IF x.kind = "nan" \/ y.kind = "nan" THEN NaN
    ELSE IF x.kind = "fin" /\ y.kind = "fin"
         THEN Rat(x.mant * y.mant, x.scale + y.scale, x.den * y.den)
         ELSE IF Sign(x) * Sign(y) = 0 THEN NaN
              ELSE IF Sign(x) * Sign(y) > 0 THEN PosInfinity ELSE NegInfinity

\* x / n for an integer n > 0
Over(x, n) ==
    IF x.kind = "fin" THEN Rat(x.mant, x.scale, x.den * n) ELSE x

\* a String.prototype.includes(sub)
Includes(s, sub) ==
    \E i \in 1..(Len(s) - Len(sub) + 1) : SubSeq(s, i, i + Len(sub) - 1) = sub

UpperCase == <<"A", "B", "C", "D", "E", "F", "G", "H", "I", "J", "K", "L", "M",
               "N", "O", "P", "Q", "R", "S", "T", "U", "V", "W", "X", "Y", "Z">>

LowerCase == <<"a", "b", "c", "d", "e", "f", "g", "h", "i", "j", "k", "l", "m",
               "n", "o", "p", "q", "r", "s", "t", "u", "v", "w", "x", "y", "z">>

LowerChar(c) ==
    IF \E i \in 1..Len(UpperCase) : UpperCase[i] = c
    THEN LowerCase[CHOOSE i \in 1..Len(UpperCase) : UpperCase[i] = c]
    ELSE c

\* String.prototype.toLowerCase()
RECURSIVE ToLowerCase(_)
ToLowerCase(s) ==
    IF Len(s) = 0 THEN ""
    ELSE LowerChar(SubSeq(s, 1, 1)) \o ToLowerCase(SubSeq(s, 2, Len(s)))

CharAt(s, i) == IF i >= 1 /\ i <= Len(s) THEN SubSeq(s, i, i) ELSE ""

-----------------------------------------------------------------------------
(* CO2 emission model *)

Tiers == {"small", "medium", "large"}

MODEL_SIZE ==
    [id \in {"claude-haiku-4-5", "claude-sonnet-4-5", "claude-sonnet-4",
             "claude-opus-4", "gpt-4o-mini", "gpt-4.1-mini", "gpt-4.1-nano",
             "gpt-4o", "gpt-4.1", "o3-mini", "o3", "o4-mini",
             "gemini-2.0-flash", "gemini-2.5-flash", "gemini-2.5-pro"} |->
        CASE id \in {"claude-haiku-4-5", "gpt-4o-mini", "gpt-4.1-mini",
                     "gpt-4.1-nano", "gemini-2.0-flash", "gemini-2.5-flash"}
               -> "small"
          [] id \in {"claude-opus-4", "o3"} -> "large"
          [] OTHER -> "medium"]

\* The properties every object literal inherits from Object.prototype; each
\* is a function or an object, hence truthy.
ObjectPrototypeKeys ==
    {"constructor", "toString", "toLocaleString", "valueOf", "hasOwnProperty",
     "isPrototypeOf", "propertyIsEnumerable", "__proto__", "__defineGetter__",
     "__defineSetter__", "__lookupGetter__", "__lookupSetter__"}

\* MODEL_SIZE[modelID]: an own property, else an inherited one, else undefined
ModelSizeGet(modelID) ==
    IF modelID \in DOMAIN MODEL_SIZE THEN MODEL_SIZE[modelID]
    ELSE IF modelID \in ObjectPrototypeKeys
         THEN "Object.prototype." \o modelID
         ELSE "undefined"

\* kWh per token, in units of 10^-7 kWh
ENERGY_PER_TOKEN_KWH ==
    [cls \in Tiers |->
        CASE cls = "small" -> Fin(3, 7)
          [] cls = "medium" -> Fin(10, 7)
          [] cls = "large" -> Fin(30, 7)]

DEFAULT_GRID_INTENSITY == 400

Digits == <<"0", "1", "2", "3", "4", "5", "6", "7", "8", "9">>

IsDigit(c) == \E i \in 1..Len(Digits) : Digits[i] = c

DigitVal(c) == (CHOOSE i \in 1..Len(Digits) : Digits[i] = c) - 1

\* the number of digits of s from position i on
RECURSIVE DigitsLen(_, _)
DigitsLen(s, i) == IF IsDigit(CharAt(s, i)) THEN 1 + DigitsLen(s, i + 1) ELSE 0

\* the value of the n digits of s from position i on, appended to acc
RECURSIVE NatOf(_, _, _, _)
NatOf(s, i, n, acc) ==
    IF n = 0 THEN acc ELSE NatOf(s, i + 1, n - 1, 10 * acc + DigitVal(CharAt(s, i)))

WhiteSpace == {" "}

RECURSIVE TrimStart(_)
TrimStart(s) ==
    IF CharAt(s, 1) \in WhiteSpace THEN TrimStart(SubSeq(s, 2, Len(s))) ELSE s

\* parseFloat(string): the value of the longest prefix of the trimmed string
\* that is a decimal literal (sign, digits, point, digits, exponent) or a
\* signed "Infinity"; NaN when there is no such prefix.  What follows the
\* prefix is ignored.
parseFloat(str) ==
    LET t == TrimStart(str)
        signed == CharAt(t, 1) \in {"+", "-"}
        sgn == IF CharAt(t, 1) = "-" THEN -1 ELSE 1
        p == IF signed THEN 2 ELSE 1
        ni == DigitsLen(t, p)
        hasDot == CharAt(t, p + ni) = "."
        nf == IF hasDot THEN DigitsLen(t, p + ni + 1) ELSE 0
        q == p + ni + (IF hasDot THEN 1 + nf ELSE 0)
        esigned == CharAt(t, q + 1) \in {"+", "-"}
        ep == IF esigned THEN q + 2 ELSE q + 1
        ne == IF CharAt(t, q) \in {"e", "E"} THEN DigitsLen(t, ep) ELSE 0
        ex == (IF CharAt(t, q + 1) = "-" THEN -1 ELSE 1) * NatOf(t, ep, ne, 0)
        m == NatOf(t, p + ni + 1, nf, NatOf(t, p, ni, 0))
    IN  IF SubSeq(t, p, IF p + 7 <= Len(t) THEN p + 7 ELSE Len(t)) = "Infinity"
        THEN IF sgn = 1 THEN PosInfinity ELSE NegInfinity
        ELSE IF ni + nf = 0 THEN NaN
        ELSE IF ex >= 0 THEN Fin(sgn * m * Pow10(ex), nf)
        ELSE Fin(sgn * m, nf - ex)

\* process.env.X: an unset variable reads undefined, a set one its string
Unset == [set |-> FALSE]

EnvSet(str) == [set |-> TRUE, value |-> str]

\* if (env): a string is truthy unless it is empty
Truthy(env) == env.set /\ Len(env.value) > 0

getGridIntensity(env) ==
    IF Truthy(env) /\ ~IsNaN(parseFloat(env.value)) /\ GtZero(parseFloat(env.value))
    THEN parseFloat(env.value)
    ELSE Fin(DEFAULT_GRID_INTENSITY, 0)

classifyModel(modelID) ==
    LET id == ToLowerCase(modelID)
    IN  IF ModelSizeGet(modelID) # "undefined" THEN ModelSizeGet(modelID)
        ELSE IF \/ Includes(id, "haiku")
                \/ Includes(id, "mini")
                \/ Includes(id, "nano")
                \/ Includes(id, "flash")
             THEN "small"
        ELSE IF Includes(id, "opus") \/ (Includes(id, "o3") /\ ~Includes(id, "mini"))
             THEN "large"
        ELSE "medium"

-----------------------------------------------------------------------------
(* Eco scoring *)

EcoGrade(g, lbl, lvl) == [grade |-> g, label |-> lbl, level |-> lvl]

\* ECO_THRESHOLDS with the levels of B and B- exchanged
ECO_THRESHOLDS_LevelsExchanged ==
    << [maxPerMsg |-> Fin(1, 1), grade |-> EcoGrade("A+", "Exemplary", 1)],
       [maxPerMsg |-> Fin(3, 1), grade |-> EcoGrade("A", "Excellent", 2)],
       [maxPerMsg |-> Fin(8, 1), grade |-> EcoGrade("B", "Good", 4)],
       [maxPerMsg |-> Fin(15, 1), grade |-> EcoGrade("B-", "Above Average", 3)],
       [maxPerMsg |-> Fin(30, 1), grade |-> EcoGrade("C", "Moderate", 6)],
       [maxPerMsg |-> Fin(60, 1), grade |-> EcoGrade("D", "High Impact", 8)],
       [maxPerMsg |-> PosInfinity, grade |-> EcoGrade("F", "Very High Impact", 10)] >>

\* maxPerMsg in grams of CO2 per message; the advisory tip is left out
ECO_THRESHOLDS ==
    << [maxPerMsg |-> Fin(1, 1), grade |-> EcoGrade("A+", "Exemplary", 1)],
       [maxPerMsg |-> Fin(3, 1), grade |-> EcoGrade("A", "Excellent", 2)],
       [maxPerMsg |-> Fin(8, 1), grade |-> EcoGrade("B", "Good", 3)],
       [maxPerMsg |-> Fin(15, 1), grade |-> EcoGrade("B-", "Above Average", 4)],
       [maxPerMsg |-> Fin(30, 1), grade |-> EcoGrade("C", "Moderate", 6)],
       [maxPerMsg |-> Fin(60, 1), grade |-> EcoGrade("D", "High Impact", 8)],
       [maxPerMsg |-> PosInfinity, grade |-> EcoGrade("F", "Very High Impact", 10)] >>

\* messages > 0 ? co2Grams / messages : 0
PerMsg(co2Grams, messages) ==
    IF messages > 0 THEN Over(co2Grams, messages) ELSE Fin(0, 0)

\* GradeFrom with < in place of <=
RECURSIVE GradeFromStrict(_, _)
GradeFromStrict(perMsg, i) ==
    IF i > Len(ECO_THRESHOLDS) THEN ECO_THRESHOLDS[Len(ECO_THRESHOLDS)].grade
    ELSE IF Less(perMsg, ECO_THRESHOLDS[i].maxPerMsg) THEN ECO_THRESHOLDS[i].grade
    ELSE GradeFromStrict(perMsg, i + 1)

\* the loop of getEcoGrade from entry i on, and the return after the loop
RECURSIVE GradeFrom(_, _)
GradeFrom(perMsg, i) ==
    IF i > Len(ECO_THRESHOLDS) THEN ECO_THRESHOLDS[Len(ECO_THRESHOLDS)].grade
    ELSE IF Leq(perMsg, ECO_THRESHOLDS[i].maxPerMsg) THEN ECO_THRESHOLDS[i].grade
    ELSE GradeFrom(perMsg, i + 1)

getEcoGrade(co2Grams, messages) == GradeFrom(PerMsg(co2Grams, messages), 1)

\* impactBar(level): the numbers of filled and of empty cells
impactBar(level) ==
    LET filled == IF level < 0 THEN 0 ELSE IF level > 10 THEN 10 ELSE level
    IN  [filled |-> filled, empty |-> 10 - filled]

-----------------------------------------------------------------------------
(* Maps and insertion-ordered sets *)

EmptyMap == [k \in {} |-> Undefined]

MapHas(m, k) == k \in DOMAIN m

MapGet(m, k) == IF k \in DOMAIN m THEN m[k] ELSE Undefined

MapSet(m, k, v) == [x \in DOMAIN m \cup {k} |-> IF x = k THEN v ELSE m[x]]

\* a Set iterates in insertion order: a sequence without repetition
Elems(set) == {set[i] : i \in 1..Len(set)}

SetAdd(set, x) == IF x \in Elems(set) THEN set ELSE Append(set, x)

-----------------------------------------------------------------------------
(* Per-session accumulator *)

newSessionStats(now) ==
    [inputTokens |-> 0, outputTokens |-> 0, reasoningTokens |-> 0,
     cacheReadTokens |-> 0, cacheWriteTokens |-> 0, cost |-> 0, messages |-> 0,
     models |-> <<>>, providers |-> <<>>, firstSeen |-> now]

\* the snapshot used when messageSnapshots has none for the key
ZeroSnapshot ==
    [input |-> 0, output |-> 0, reasoning |-> 0, cacheRead |-> 0,
     cacheWrite |-> 0, cost |-> 0]

\* the snapshot saved for future delta calculations
SnapshotOf(msg) ==
    [input |-> msg.tokens.input, output |-> msg.tokens.output,
     reasoning |-> msg.tokens.reasoning, cacheRead |-> msg.tokens.cache.read,
     cacheWrite |-> msg.tokens.cache.write, cost |-> msg.cost]

\* `${msg.sessionID}:${msg.id}`
MessageKey(sessionID, id) == sessionID \o ":" \o id

\* sessions.get(msg.sessionID), or a new SessionStats
StatsFor(map, sessionID, now) ==
    IF MapHas(map, sessionID) THEN map[sessionID] ELSE newSessionStats(now)

\* PrevSnapshot without the lookup: every update is diffed against zero
PrevSnapshotZero(snaps, key) == ZeroSnapshot

\* messageSnapshots.get(key) ?? { input: 0, ... }
PrevSnapshot(snaps, key) == IF MapHas(snaps, key) THEN snaps[key] ELSE ZeroSnapshot

\* !messageSnapshots.has(key)
IsNew(snaps, key) == ~MapHas(snaps, key)

\* Accumulate with every delta clamped at zero
AccumulateClamped(stats, msg, prev, isNew) ==
    LET Clamp(d) == IF d < 0 THEN 0 ELSE d
    IN  [stats EXCEPT
            !.inputTokens = @ + Clamp(msg.tokens.input - prev.input),
            !.outputTokens = @ + Clamp(msg.tokens.output - prev.output),
            !.reasoningTokens = @ + Clamp(msg.tokens.reasoning - prev.reasoning),
            !.cacheReadTokens = @ + Clamp(msg.tokens.cache.read - prev.cacheRead),
            !.cacheWriteTokens =
                @ + Clamp(msg.tokens.cache.write - prev.cacheWrite),
            !.cost = @ + Clamp(msg.cost - prev.cost),
            !.messages = IF isNew THEN @ + 1 ELSE @,
            !.models = SetAdd(@, msg.modelID),
            !.providers = SetAdd(@, msg.providerID)]

\* the statements that update stats from msg, prev and isNew
Accumulate(stats, msg, prev, isNew) ==
    [stats EXCEPT
        !.inputTokens = @ + (msg.tokens.input - prev.input),
        !.outputTokens = @ + (msg.tokens.output - prev.output),
        !.reasoningTokens = @ + (msg.tokens.reasoning - prev.reasoning),
        !.cacheReadTokens = @ + (msg.tokens.cache.read - prev.cacheRead),
        !.cacheWriteTokens = @ + (msg.tokens.cache.write - prev.cacheWrite),
        !.cost = @ + (msg.cost - prev.cost),
        !.messages = IF isNew THEN @ + 1 ELSE @,
        !.models = SetAdd(@, msg.modelID),
        !.providers = SetAdd(@, msg.providerID)]

\* some field of msg is smaller than in the snapshot stored under its key
Below(snaps, e) ==
    LET key == MessageKey(e.info.sessionID, e.info.id)
    IN  /\ MapHas(snaps, key)
        /\ \E f \in DOMAIN ZeroSnapshot : SnapshotOf(e.info)[f] < snaps[key][f]

\* Tracked without the test of the role
TrackedAnyRole(e) == e.type = "message.updated"

\* whether the event listener goes past its two early exits
Tracked(e) == e.type = "message.updated" /\ e.info.role = "assistant"

\* sessions after the event listener has handled e at time now
SessionsAfter(map, snaps, e, now) ==
    IF Tracked(e)
    THEN MapSet(map, e.info.sessionID,
                Accumulate(StatsFor(map, e.info.sessionID, now), e.info,
                           PrevSnapshot(snaps, MessageKey(e.info.sessionID, e.info.id)),
                           IsNew(snaps, MessageKey(e.info.sessionID, e.info.id))))
    ELSE map

\* SnapshotsAfter with a listener that drops the entry of a removed message
SnapshotsAfterEvicting(snaps, e) ==
    IF Tracked(e)
    THEN MapSet(snaps, MessageKey(e.info.sessionID, e.info.id), SnapshotOf(e.info))
    ELSE IF e.type = "message.removed"
    THEN [k \in DOMAIN snaps \ {MessageKey(e.info.sessionID, e.info.id)}
            |-> snaps[k]]
    ELSE snaps

\* messageSnapshots after the event listener has handled e
SnapshotsAfter(snaps, e) ==
    IF Tracked(e)
    THEN MapSet(snaps, MessageKey(e.info.sessionID, e.info.id), SnapshotOf(e.info))
    ELSE snaps

-----------------------------------------------------------------------------
(* Report *)

\* DominantFrom with every class overwriting the one found before it
RECURSIVE DominantFromLastWins(_, _, _)
DominantFromLastWins(models, i, dominantClass) ==
    IF i > Len(models) THEN dominantClass
    ELSE DominantFromLastWins(models, i + 1,
                              IF classifyModel(models[i]) \in Tiers
                              THEN classifyModel(models[i]) ELSE dominantClass)

\* the loop of computeCO2 over stats.models from entry i on
RECURSIVE DominantFrom(_, _, _)
DominantFrom(models, i, dominantClass) ==
    IF i > Len(models) THEN dominantClass
    ELSE IF classifyModel(models[i]) = "large" THEN "large"
    ELSE DominantFrom(models, i + 1,
                      IF classifyModel(models[i]) = "medium" THEN "medium"
                      ELSE dominantClass)

DominantClass(models) == DominantFrom(models, 1, "small")

\* computeCO2 with the cache tokens counted in totalTokens
computeCO2CountingCache(stats, env) ==
    LET gridIntensity == getGridIntensity(env)
        totalTokens == stats.inputTokens + stats.outputTokens + stats.reasoningTokens
                         + stats.cacheReadTokens + stats.cacheWriteTokens
        energyPerToken == ENERGY_PER_TOKEN_KWH[DominantClass(stats.models)]
        energyKwh == Mul(Fin(totalTokens, 0), energyPerToken)
    IN  [totalTokens |-> totalTokens, energyKwh |-> energyKwh,
         co2Grams |-> Mul(energyKwh, gridIntensity)]

computeCO2(stats, env) ==
    LET gridIntensity == getGridIntensity(env)
        totalTokens == stats.inputTokens + stats.outputTokens + stats.reasoningTokens
        energyPerToken == ENERGY_PER_TOKEN_KWH[DominantClass(stats.models)]
        energyKwh == Mul(Fin(totalTokens, 0), energyPerToken)
    IN  [totalTokens |-> totalTokens, energyKwh |-> energyKwh,
         co2Grams |-> Mul(energyKwh, gridIntensity)]

\* the quantities the report text is rendered from (the five real-world
\* equivalents, each co2Grams over a constant, are left out)
formatReport(stats, env, now) ==
    LET c == computeCO2(stats, env)
        grade == getEcoGrade(c.co2Grams, stats.messages)
    IN  [kind |-> "report",
         grade |-> grade.grade, label |-> grade.label,
         impact |-> impactBar(grade.level),
         duration |-> now - stats.firstSeen,
         messages |-> stats.messages,
         totalTokens |-> c.totalTokens,
         cost |-> stats.cost,
         energyKwh |-> c.energyKwh,
         co2Grams |-> c.co2Grams,
         co2PerMessage |-> PerMsg(c.co2Grams, stats.messages),
         gridIntensity |-> getGridIntensity(env),
         inputTokens |-> stats.inputTokens,
         outputTokens |-> stats.outputTokens,
         reasoningTokens |-> stats.reasoningTokens,
         cacheReadTokens |-> stats.cacheReadTokens,
         cacheWriteTokens |-> stats.cacheWriteTokens,
         models |-> stats.models,
         providers |-> stats.providers]

NoData == [kind |-> "nodata"]

\* execute without the test of the message count
executeStatsOnly(map, sessionID, env, now) ==
    IF ~MapHas(map, sessionID) THEN NoData
    ELSE formatReport(map[sessionID], env, now)

\* co2_report.execute(_args, context)
execute(map, sessionID, env, now) ==
    IF ~MapHas(map, sessionID) \/ map[sessionID].messages = 0
    THEN NoData
    ELSE formatReport(map[sessionID], env, now)

-----------------------------------------------------------------------------
(* The plugin as a state machine: events delivered one at a time by the    *)
(* host, and report queries.                                               *)

\* the number of events the host delivers
MaxEvents == 3

\* Identifiers are arbitrary strings of the host, ':' included.
SessionIDs == {"a", "a:b"}

MessageIDs == {"c", "b:c"}

Usage(i, o, r, cr, cw, c) ==
    [tokens |-> [input |-> i, output |-> o, reasoning |-> r,
                 cache |-> [read |-> cr, write |-> cw]],
     cost |-> c]

\* cumulative usage figures a message can report: nothing yet, and two
\* stages of a generation
Usages ==
    {Usage(0, 0, 0, 0, 0, 0), Usage(50, 0, 4, 20, 6, 1), Usage(120, 30, 7, 20, 9, 3)}

\* (modelID, providerID) of a message
Origins ==
    {<<"claude-haiku-4-5", "anthropic">>, <<"gpt-4o", "openai">>}

\* message.updated events, of assistant messages and of user messages
MessageUpdated ==
    {[type |-> "message.updated",
      info |-> [role |-> "assistant", sessionID |-> sid, id |-> mid,
                tokens |-> u.tokens, cost |-> u.cost,
                modelID |-> org[1], providerID |-> org[2]]] :
        sid \in SessionIDs, mid \in MessageIDs, u \in Usages, org \in Origins}
    \cup
    {[type |-> "message.updated",
      info |-> [role |-> "user", sessionID |-> sid, id |-> mid,
                tokens |-> u.tokens, cost |-> u.cost,
                modelID |-> "gpt-4o", providerID |-> "openai"]] :
        sid \in SessionIDs, mid \in MessageIDs, u \in {Usage(50, 0, 4, 20, 6, 1)}}

\* events of the host that are not message updates
OtherEvents ==
    {[type |-> "message.removed", info |-> [sessionID |-> sid, id |-> mid]] :
        sid \in SessionIDs, mid \in MessageIDs}

NoEvent == [type |-> "none"]

NoCall == [fn |-> "none"]

\* the environments the plugin is run in
PluginEnvs == {Unset}

Init ==
    /\ sessions = EmptyMap
    /\ messageSnapshots = EmptyMap
    /\ gridEnv \in PluginEnvs
    /\ clock = 0
    /\ lastEvent = NoEvent
    /\ isDup = FALSE
    /\ wentBelow = FALSE
    /\ lastSnap = EmptyMap
    /\ response = NoCall
    /\ probe = NoCall

\* event: async ({ event }) => { ... }
Deliver(e) ==
    /\ clock < MaxEvents
    /\ clock' = clock + 1
    /\ sessions' = SessionsAfter(sessions, messageSnapshots, e, clock)
    /\ messageSnapshots' = SnapshotsAfter(messageSnapshots, e)
    /\ lastEvent' = e
    /\ isDup' = (e = lastEvent)
    /\ wentBelow' = (Tracked(e) /\ Below(messageSnapshots, e))
    /\ lastSnap' = IF Tracked(e)
                   THEN MapSet(lastSnap, <<e.info.sessionID, e.info.id>>,
                               SnapshotOf(e.info))
                   ELSE lastSnap
    /\ response' = NoCall
    /\ UNCHANGED <<gridEnv, probe>>

MessageUpdatedEvent == \E e \in MessageUpdated : Deliver(e)

OtherEvent == \E e \in OtherEvents : Deliver(e)

\* Co2Report with a get-or-create lookup of the session's stats
Co2ReportCreating ==
    \E sid \in SessionIDs :
        /\ response' = [fn |-> "co2_report", sessionID |-> sid,
                        result |-> execute(sessions, sid, gridEnv, clock)]
        /\ sessions' = MapSet(sessions, sid, StatsFor(sessions, sid, clock))
        /\ UNCHANGED <<messageSnapshots, gridEnv, clock, lastEvent, isDup,
                       wentBelow, lastSnap, probe>>

\* the co2_report tool, called in the context of a session
Co2Report ==
    \E sid \in SessionIDs :
        /\ response' = [fn |-> "co2_report", sessionID |-> sid,
                        result |-> execute(sessions, sid, gridEnv, clock)]
        /\ UNCHANGED <<sessions, messageSnapshots, gridEnv, clock, lastEvent,
                       isDup, wentBelow, lastSnap, probe>>

Next == MessageUpdatedEvent \/ OtherEvent \/ Co2Report

Spec == Init /\ [][Next]_vars

-----------------------------------------------------------------------------
(* Properties of the accumulator and of the report query *)

Fields == {"input", "output", "reasoning", "cacheRead", "cacheWrite", "cost"}

\* the six running totals of a SessionStats, by snapshot field
SixTotals(stats) ==
    [input |-> stats.inputTokens, output |-> stats.outputTokens,
     reasoning |-> stats.reasoningTokens, cacheRead |-> stats.cacheReadTokens,
     cacheWrite |-> stats.cacheWriteTokens, cost |-> stats.cost]

\* the (session, message) pairs an assistant update has been applied for
AppliedPairs == DOMAIN lastSnap

\* the usage last applied for the pair itself, all-zero when there is none
OwnPrev(sid, mid) ==
    IF <<sid, mid>> \in AppliedPairs THEN lastSnap[<<sid, mid>>] ELSE ZeroSnapshot

\* C1: when an assistant update is delivered and the identical event is
\* delivered again right after it, the second delivery leaves the five token
\* totals, the cost total and the message count of the session as the first
\* left them.
IdempotentDuplicate ==
    [][(clock' = clock + 1 /\ isDup' /\ Tracked(lastEvent'))
         => /\ MapHas(sessions, lastEvent'.info.sessionID)
            /\ SixTotals(sessions'[lastEvent'.info.sessionID])
                 = SixTotals(sessions[lastEvent'.info.sessionID])
            /\ sessions'[lastEvent'.info.sessionID].messages
                 = sessions[lastEvent'.info.sessionID].messages]_vars

\* an assistant update with usage figures above zero has just been
\* delivered a second time in a row
DuplicateDelivered ==
    /\ isDup
    /\ Tracked(lastEvent)
    /\ lastEvent.info.tokens.input > 0
    /\ lastEvent.info.cost > 0

\* C2: in every state the message count of every session is the number of
\* distinct message ids an assistant update has been applied for in that
\* session (zero for a session without SessionStats).
MessageCountExact ==
    \A sid \in SessionIDs :
        (IF MapHas(sessions, sid) THEN sessions[sid].messages ELSE 0)
          = Cardinality({p \in AppliedPairs : p[1] = sid})

\* C3: every assistant update changes each of the six totals of its session
\* by the field of its snapshot minus the field of the snapshot last applied
\* for the same (session, message), all-zero when none was.
DeltaCorrect ==
    [][(clock' = clock + 1 /\ Tracked(lastEvent'))
         => LET sid == lastEvent'.info.sessionID
                mid == lastEvent'.info.id
            IN  \A f \in Fields :
                    SixTotals(sessions'[sid])[f]
                      = SixTotals(StatsFor(sessions, sid, clock))[f]
                        + (SnapshotOf(lastEvent'.info)[f] - OwnPrev(sid, mid)[f])]_vars

\* C4: a message.updated event whose role is not "assistant" leaves the
\* sessions map (no SessionStats created, every total, message count, model
\* and provider set as before) and the snapshot map unchanged.
NonAssistantNoOp ==
    [][(clock' = clock + 1
        /\ lastEvent'.type = "message.updated"
        /\ lastEvent'.info.role # "assistant")
         => sessions' = sessions /\ messageSnapshots' = messageSnapshots]_vars

\* a user message's update carrying usage figures was delivered for a
\* session that has no SessionStats and a message that has no snapshot,
\* while another session has
UserUpdateDelivered ==
    /\ lastEvent.type = "message.updated"
    /\ lastEvent.info.role = "user"
    /\ lastEvent.info.tokens.input > 0
    /\ ~MapHas(sessions, lastEvent.info.sessionID)
    /\ ~MapHas(messageSnapshots,
               MessageKey(lastEvent.info.sessionID, lastEvent.info.id))
    /\ DOMAIN sessions # {}

\* C5: a report query answers "no data yet" exactly when the session has no
\* SessionStats or its message count is zero, and the report otherwise; it
\* always answers one of the two.
ReportOrNoData ==
    response.fn = "co2_report" =>
        LET none == \/ ~MapHas(sessions, response.sessionID)
                    \/ sessions[response.sessionID].messages = 0
        IN  /\ response.result.kind \in {"nodata", "report"}
            /\ (response.result = NoData) <=> none
            /\ (response.result.kind = "report") <=> ~none
            /\ response.result.kind = "report" =>
                  response.result.messages = sessions[response.sessionID].messages

\* a query was answered with the report of a session of two messages
ReportReturned ==
    /\ response.fn = "co2_report"
    /\ response.result.kind = "report"
    /\ response.result.messages = 2
    /\ response.result.totalTokens > 0

\* a query was answered "no data yet" for a session that has SessionStats
NoDataWithStats ==
    /\ response.fn = "co2_report"
    /\ response.result = NoData
    /\ MapHas(sessions, response.sessionID)

-----------------------------------------------------------------------------
(* getEcoGrade called twice, on arguments drawn from a grid of CO2 amounts *)
(* (in tenths of a gram) and message counts.                               *)

MaxCO2 == 65

MaxMessages == 2

GradeArgs ==
    {[co2Grams |-> Fin(k, 1), messages |-> m] : k \in 0..MaxCO2, m \in 0..MaxMessages}

Idle ==
    /\ sessions = EmptyMap
    /\ messageSnapshots = EmptyMap
    /\ clock = 0
    /\ lastEvent = NoEvent
    /\ isDup = FALSE
    /\ wentBelow = FALSE
    /\ lastSnap = EmptyMap
    /\ response = NoCall

InitGrade ==
    /\ Idle
    /\ gridEnv = Unset
    /\ probe \in {[fn |-> "getEcoGrade", pc |-> 0, first |-> a, second |-> b] :
                     a \in GradeArgs, b \in GradeArgs}

GradeFirst ==
    /\ probe.fn = "getEcoGrade" /\ probe.pc = 0
    /\ probe' = [fn |-> "getEcoGrade", pc |-> 1,
                 first |-> probe.first, second |-> probe.second,
                 firstGrade |-> getEcoGrade(probe.first.co2Grams, probe.first.messages)]
    /\ UNCHANGED <<sessions, messageSnapshots, gridEnv, clock, lastEvent, isDup,
                   wentBelow, lastSnap, response>>

GradeSecond ==
    /\ probe.fn = "getEcoGrade" /\ probe.pc = 1
    /\ probe' = [fn |-> "getEcoGrade", pc |-> 2,
                 first |-> probe.first, second |-> probe.second,
                 firstGrade |-> probe.firstGrade,
                 secondGrade |-> getEcoGrade(probe.second.co2Grams,
                                             probe.second.messages)]
    /\ UNCHANGED <<sessions, messageSnapshots, gridEnv, clock, lastEvent, isDup,
                   wentBelow, lastSnap, response>>

NextGrade == GradeFirst \/ GradeSecond

SpecGrade == InitGrade /\ [][NextGrade]_vars

\* CO2 per message of arguments on the grid, as tenths of a gram over a
\* divisor: k / m, and 0 / 1 when there is no message
PerMessageNum(a) == IF a.messages > 0 THEN a.co2Grams.mant ELSE 0

PerMessageDen(a) == IF a.messages > 0 THEN a.messages ELSE 1

\* perMessage of a <= perMessage of b
PerMessageLeq(a, b) ==
    PerMessageNum(a) * PerMessageDen(b) <= PerMessageNum(b) * PerMessageDen(a)

\* perMessage of a <= t tenths of a gram, and < t tenths of a gram
AtMostTenths(a, t) == PerMessageNum(a) <= t * PerMessageDen(a)

BelowTenths(a, t) == PerMessageNum(a) < t * PerMessageDen(a)

LadderGrades == {ECO_THRESHOLDS[i].grade : i \in 1..Len(ECO_THRESHOLDS)}

\* C7: getEcoGrade returns one grade of the ladder for every non-negative
\* CO2 amount and message count, and of two calls the one with the larger
\* CO2 per message never gets the lower level.
GradeTotalMonotone ==
    probe.fn = "getEcoGrade" =>
        /\ probe.pc >= 1 => probe.firstGrade \in LadderGrades
        /\ probe.pc = 2 =>
              /\ probe.secondGrade \in LadderGrades
              /\ PerMessageLeq(probe.first, probe.second)
                    => probe.firstGrade.level <= probe.secondGrade.level

\* two calls were made, the second with more CO2 per message, and they
\* returned B- and F
GradedTwice ==
    /\ probe.fn = "getEcoGrade" /\ probe.pc = 2
    /\ PerMessageLeq(probe.first, probe.second)
    /\ ~PerMessageLeq(probe.second, probe.first)
    /\ probe.firstGrade.grade = "B-"
    /\ probe.secondGrade.grade = "F"

\* the ladder with inclusive upper bounds
InclusiveGrade(a) ==
    IF AtMostTenths(a, 1) THEN "A+"
    ELSE IF AtMostTenths(a, 3) THEN "A"
    ELSE IF AtMostTenths(a, 8) THEN "B"
    ELSE IF AtMostTenths(a, 15) THEN "B-"
    ELSE IF AtMostTenths(a, 30) THEN "C"
    ELSE IF AtMostTenths(a, 60) THEN "D"
    ELSE "F"

ReadmeGrade(a) ==
    IF BelowTenths(a, 1) THEN "A+"
    ELSE IF BelowTenths(a, 3) THEN "A"
    ELSE IF BelowTenths(a, 8) THEN "B"
    ELSE IF BelowTenths(a, 15) THEN "B-"
    ELSE IF BelowTenths(a, 30) THEN "C"
    ELSE IF BelowTenths(a, 60) THEN "D"
    ELSE "F"

\* C9: the grade is A+ when CO2 per message is < 0.1 g, A when < 0.3,
\* B when < 0.8, B- when < 1.5, C when < 3.0, D when < 6.0, and F when it
\* is >= 6.0 g.
GradeLadderReadme ==
    (probe.fn = "getEcoGrade" /\ probe.pc >= 1)
        => probe.firstGrade.grade = ReadmeGrade(probe.first)

-----------------------------------------------------------------------------
(* getGridIntensity under every value of the override.                     *)

MaxEnvLen == 3

EnvAlphabet == {"0", "5", ".", "-", "a"}

RECURSIVE StringsOfLen(_)
StringsOfLen(n) ==
    IF n = 0 THEN {""} ELSE {s \o c : s \in StringsOfLen(n - 1), c \in EnvAlphabet}

EnvValues ==
    {Unset} \cup {EnvSet(s) : s \in UNION {StringsOfLen(n) : n \in 0..MaxEnvLen}}
            \cup {EnvSet("Infinity"), EnvSet("-Infinity")}

InitGrid ==
    /\ Idle
    /\ gridEnv \in EnvValues
    /\ probe = [fn |-> "getGridIntensity", pc |-> 0]

GridIntensity ==
    /\ probe.fn = "getGridIntensity" /\ probe.pc = 0
    /\ probe' = [fn |-> "getGridIntensity", pc |-> 1,
                 result |-> getGridIntensity(gridEnv)]
    /\ UNCHANGED <<sessions, messageSnapshots, gridEnv, clock, lastEvent, isDup,
                   wentBelow, lastSnap, response>>

NextGrid == GridIntensity

SpecGrid == InitGrid /\ [][NextGrid]_vars

\* a string of digits with at most one point and at least one digit
IsDecimalString(str) ==
    /\ \A i \in 1..Len(str) : IsDigit(CharAt(str, i)) \/ CharAt(str, i) = "."
    /\ Cardinality({i \in 1..Len(str) : CharAt(str, i) = "."}) <= 1
    /\ \E i \in 1..Len(str) : IsDigit(CharAt(str, i))

\* the digits of str read as one integer
RECURSIVE DigitsValue(_, _, _)
DigitsValue(str, i, acc) ==
    IF i > Len(str) THEN acc
    ELSE DigitsValue(str, i + 1,
                     IF IsDigit(CharAt(str, i))
                     THEN 10 * acc + DigitVal(CharAt(str, i)) ELSE acc)

\* the number of digits after the point
DecimalPlaces(str) ==
    IF \E i \in 1..Len(str) : CharAt(str, i) = "."
    THEN Len(str) - (CHOOSE i \in 1..Len(str) : CharAt(str, i) = ".")
    ELSE 0

\* the override is set to a decimal number above zero
IsPositiveDecimal(env) ==
    /\ env.set
    /\ IsDecimalString(env.value)
    /\ DigitsValue(env.value, 1, 0) > 0

\* C10: the intensity used is a positive finite number: the value of the
\* override when the override is a positive finite decimal number, and 400
\* for every other value of the override, unset included.
GridIntensityValidated ==
    (probe.fn = "getGridIntensity" /\ probe.pc = 1) =>
        /\ probe.result.kind = "fin" /\ probe.result.mant > 0
        /\ IF IsPositiveDecimal(gridEnv)
           THEN NumEq(probe.result,
                      Fin(DigitsValue(gridEnv.value, 1, 0), DecimalPlaces(gridEnv.value)))
           ELSE probe.result = Fin(DEFAULT_GRID_INTENSITY, 0)

\* what holds of getGridIntensity: a positive decimal number gives its
\* value, and unset, empty, and strings that start with no number or with
\* one that is not above zero give 400
GridIntensityOfNumbers ==
    (probe.fn = "getGridIntensity" /\ probe.pc = 1) =>
        /\ IsPositiveDecimal(gridEnv) =>
              NumEq(probe.result,
                    Fin(DigitsValue(gridEnv.value, 1, 0), DecimalPlaces(gridEnv.value)))
        /\ gridEnv \in {Unset, EnvSet(""), EnvSet("a"), EnvSet("-5"), EnvSet("0")} =>
              probe.result = Fin(DEFAULT_GRID_INTENSITY, 0)

-----------------------------------------------------------------------------
(* computeCO2 on a session whose models were recorded in any order.        *)

MaxModels == 3

TierModelIDs ==
    {"claude-haiku-4-5", "gpt-4o", "claude-opus-4", "o3-mini", "my-model",
     "Opus-Mini", "constructor"}

\* a session of one message of 1000 input tokens
TierStats(models) ==
    [newSessionStats(0) EXCEPT !.inputTokens = 1000, !.messages = 1,
                                !.models = models]

InitTier ==
    /\ Idle
    /\ gridEnv = Unset
    /\ probe = [fn |-> "computeCO2", pc |-> 0, models |-> <<>>]

\* stats.models.add(msg.modelID)
RecordModel ==
    \E id \in TierModelIDs :
        /\ probe.fn = "computeCO2" /\ probe.pc = 0
        /\ Len(probe.models) < MaxModels
        /\ probe' = [probe EXCEPT !.models = SetAdd(@, id)]
        /\ UNCHANGED <<sessions, messageSnapshots, gridEnv, clock, lastEvent,
                       isDup, wentBelow, lastSnap, response>>

ComputeCO2 ==
    /\ probe.fn = "computeCO2" /\ probe.pc = 0
    /\ probe' = [fn |-> "computeCO2", pc |-> 1, models |-> probe.models,
                 result |-> computeCO2(TierStats(probe.models), gridEnv)]
    /\ UNCHANGED <<sessions, messageSnapshots, gridEnv, clock, lastEvent, isDup,
                   wentBelow, lastSnap, response>>

NextTier == RecordModel \/ ComputeCO2

SpecTier == InitTier /\ [][NextTier]_vars

\* the tier of the claim: large if any identifier classifies as large,
\* otherwise medium if any classifies as medium, otherwise small
PrecedenceTier(models) ==
    IF \E id \in Elems(models) : classifyModel(id) = "large" THEN "large"
    ELSE IF \E id \in Elems(models) : classifyModel(id) = "medium" THEN "medium"
    ELSE "small"

\* C6: whatever identifiers were recorded and in whatever order, computeCO2
\* estimates with the energy per token of the large tier if any identifier
\* classifies as large, otherwise of medium if any classifies as medium,
\* otherwise of small.
DominantTierSelected ==
    (probe.fn = "computeCO2" /\ probe.pc = 1) =>
        /\ probe.result.totalTokens = 1000
        /\ probe.result.energyKwh
             = Mul(Fin(1000, 0), ENERGY_PER_TOKEN_KWH[PrecedenceTier(probe.models)])

\* the estimate was made for a session that recorded a large model first,
\* then a medium and a small one
LargeRecordedFirst ==
    /\ probe.fn = "computeCO2" /\ probe.pc = 1
    /\ Len(probe.models) = 3
    /\ classifyModel(probe.models[1]) = "large"
    /\ classifyModel(probe.models[2]) = "medium"
    /\ classifyModel(probe.models[3]) = "small"

-----------------------------------------------------------------------------
(* The report of one session, under the default intensity and under an     *)
(* override, after updates of two of its messages.                         *)

EstimateUsages ==
    {Usage(0, 0, 0, 0, 0, 0), Usage(1000, 500, 0, 300, 200, 2),
     Usage(120, 30, 7, 20, 9, 3)}

EstimateOrigins ==
    {<<"claude-haiku-4-5", "anthropic">>, <<"claude-opus-4", "anthropic">>,
     <<"gpt-4o", "openai">>}

EstimateEvents ==
    {[type |-> "message.updated",
      info |-> [role |-> "assistant", sessionID |-> "a", id |-> mid,
                tokens |-> u.tokens, cost |-> u.cost,
                modelID |-> org[1], providerID |-> org[2]]] :
        mid \in MessageIDs, u \in EstimateUsages, org \in EstimateOrigins}

EstimateEnvs == {Unset, EnvSet("50")}

InitEstimate ==
    /\ Idle
    /\ gridEnv \in EstimateEnvs
    /\ probe = NoCall

EstimateEvent == \E e \in EstimateEvents : Deliver(e)

NextEstimate == EstimateEvent \/ Co2Report

SpecEstimate == InitEstimate /\ [][NextEstimate]_vars

\* kWh per token of the claim, in units of 10^-7 kWh
StatedEnergy(tier) ==
    CASE tier = "small" -> 3 [] tier = "medium" -> 10 [] tier = "large" -> 30

\* the intensity each environment configures, in gCO2 per kWh
StatedIntensity(env) == IF env = Unset THEN 400 ELSE 50

\* C11: the CO2 reported for a session is (input + output + reasoning
\* totals) x per-token energy of the dominant tier (0.0000003, 0.000001,
\* 0.000003 kWh) x grid intensity, the cache totals not contributing; one
\* claude-haiku-4-5 message of input 1000 and output 500 at intensity 400
\* is reported as 1500 tokens, 0.18 g, grade A.
EstimateFormula ==
    (response.fn = "co2_report" /\ response.result.kind = "report") =>
        LET stats == sessions[response.sessionID]
            tokens == stats.inputTokens + stats.outputTokens + stats.reasoningTokens
        IN  /\ response.result.totalTokens = tokens
            /\ NumEq(response.result.co2Grams,
                     Fin(tokens * StatedEnergy(PrecedenceTier(stats.models))
                           * StatedIntensity(gridEnv), 7))
            /\ ( /\ stats.models = <<"claude-haiku-4-5">>
                 /\ stats.inputTokens = 1000 /\ stats.outputTokens = 500
                 /\ stats.reasoningTokens = 0 /\ stats.messages = 1
                 /\ gridEnv = Unset )
                  => /\ response.result.totalTokens = 1500
                     /\ NumEq(response.result.co2Grams, Fin(18, 2))
                     /\ response.result.grade = "A"

\* the report of a session of one claude-haiku-4-5 message of input 1000,
\* output 500 and cache tokens above zero, at the default intensity
HaikuMessageReported ==
    /\ response.fn = "co2_report" /\ response.result.kind = "report"
    /\ gridEnv = Unset
    /\ response.result.models = <<"claude-haiku-4-5">>
    /\ response.result.messages = 1
    /\ response.result.inputTokens = 1000
    /\ response.result.outputTokens = 500
    /\ response.result.cacheReadTokens > 0
    /\ response.result.cacheWriteTokens > 0

-----------------------------------------------------------------------------
(* classifyModel on identifiers of the table, identifiers built around the *)
(* markers, and names of inherited properties.                             *)

IdPrefixes == {"", "x-", "GPT-"}

IdStems == {"haiku", "mini", "nano", "flash", "opus", "o3", "Opus", "O3", "pro", "llama"}

IdSuffixes == {"", "-mini", "-opus", "-2"}

ClassifyIDs ==
    {pre \o stem \o suf : pre \in IdPrefixes, stem \in IdStems, suf \in IdSuffixes}
      \cup DOMAIN MODEL_SIZE \cup ObjectPrototypeKeys

InitClassify ==
    /\ Idle
    /\ gridEnv = Unset
    /\ probe \in {[fn |-> "classifyModel", pc |-> 0, modelID |-> id] : id \in ClassifyIDs}

Classify ==
    /\ probe.fn = "classifyModel" /\ probe.pc = 0
    /\ probe' = [fn |-> "classifyModel", pc |-> 1, modelID |-> probe.modelID,
                 result |-> classifyModel(probe.modelID)]
    /\ UNCHANGED <<sessions, messageSnapshots, gridEnv, clock, lastEvent, isDup,
                   wentBelow, lastSnap, response>>

NextClassify == Classify

SpecClassify == InitClassify /\ [][NextClassify]_vars

\* C12: classifyModel returns one of small, medium, large for every model
\* identifier string.
ClassifierTotal ==
    (probe.fn = "classifyModel" /\ probe.pc = 1) => probe.result \in Tiers

\* what holds of classifyModel: it returns a tier for every identifier that
\* is not the name of a property inherited from Object.prototype
ClassifierTotalOffPrototype ==
    (probe.fn = "classifyModel" /\ probe.pc = 1
       /\ probe.modelID \notin ObjectPrototypeKeys) => probe.result \in Tiers

-----------------------------------------------------------------------------
(* The plugin under a host whose successive snapshots of a message never   *)
(* decrease in any field.                                                  *)

\* the usage of e is, field by field, at least the usage last applied for
\* the same (session, message)
NonDecreasing(e) ==
    \A f \in Fields :
        SnapshotOf(e.info)[f] >= OwnPrev(e.info.sessionID, e.info.id)[f]

GrowingUpdate ==
    \E e \in MessageUpdated : (Tracked(e) => NonDecreasing(e)) /\ Deliver(e)

NextGrowing == GrowingUpdate \/ OtherEvent \/ Co2Report

SpecGrowing == Init /\ [][NextGrowing]_vars

\* C13: when every message's successive snapshots are non-decreasing in
\* each field, no event decreases any of the six totals or the message
\* count of a session.
TotalsNeverDecrease ==
    [][\A sid \in DOMAIN sessions :
          /\ MapHas(sessions', sid)
          /\ \A f \in Fields :
                SixTotals(sessions'[sid])[f] >= SixTotals(sessions[sid])[f]
          /\ sessions'[sid].messages >= sessions[sid].messages]_vars

-----------------------------------------------------------------------------
(* Frame of an update and the slots of the snapshot table *)

Pairs == SessionIDs \X MessageIDs

\* messageSnapshots.get(`${sessionID}:${id}`): the slot of a pair
Slot(snaps, pair) == MapGet(snaps, MessageKey(pair[1], pair[2]))

\* C14: an assistant update for (S, M) leaves the SessionStats of every
\* session other than S, and the snapshot entry of every (session, message)
\* pair other than (S, M), as they were.
UpdateFrame ==
    [][(clock' = clock + 1 /\ Tracked(lastEvent'))
         => LET S == lastEvent'.info.sessionID
                M == lastEvent'.info.id
            IN  /\ \A sid \in SessionIDs \ {S} :
                      MapGet(sessions', sid) = MapGet(sessions, sid)
                /\ \A pair \in Pairs \ {<<S, M>>} :
                      Slot(messageSnapshots', pair)
                        = Slot(messageSnapshots, pair)]_vars

\* C15: two different (session, message) pairs never share a snapshot slot:
\* the slot of every pair an update has been applied for holds the usage
\* last applied for that pair itself.
SlotHoldsOwnSnapshot ==
    \A pair \in AppliedPairs : Slot(messageSnapshots, pair) = lastSnap[pair]

\* C16: an assistant update carrying a field value smaller than the one in
\* the snapshot stored under its key is applied as it is: the session total
\* of that field goes down by exactly the difference, and the smaller
\* snapshot replaces the stored one.
SmallerSnapshotApplied ==
    [][(clock' = clock + 1 /\ Tracked(lastEvent')
          /\ Below(messageSnapshots, lastEvent'))
         => LET S == lastEvent'.info.sessionID
                key == MessageKey(S, lastEvent'.info.id)
                stored == messageSnapshots[key]
                new == SnapshotOf(lastEvent'.info)
                before == SixTotals(StatsFor(sessions, S, clock))
            IN  /\ MapHas(sessions', S)
                /\ \A f \in Fields :
                      new[f] < stored[f]
                        => SixTotals(sessions'[S])[f]
                             = before[f] - (stored[f] - new[f])
                /\ MapGet(messageSnapshots', key) = new]_vars

\* an assistant update with a smaller field than the stored one was handled
SmallerSnapshotDelivered ==
    /\ Tracked(lastEvent)
    /\ wentBelow
    /\ Slot(messageSnapshots, <<lastEvent.info.sessionID, lastEvent.info.id>>)
         = SnapshotOf(lastEvent.info)

\* C17: a report query, whatever it returns, leaves every SessionStats and
\* every snapshot entry as they were and creates no SessionStats.
ReportReadOnly ==
    [][(response' # NoCall /\ response'.fn = "co2_report")
         => /\ sessions' = sessions
            /\ messageSnapshots' = messageSnapshots]_vars

\* a report was asked for a session without stats while another has some,
\* and no stats were created for it
ReportForUnknownSession ==
    /\ response # NoCall
    /\ response.result = NoData
    /\ ~MapHas(sessions, response.sessionID)
    /\ sessions # EmptyMap
    /\ messageSnapshots # EmptyMap

\* the tier the stated precedence gives: the table's tier for a table key;
\* else small on a small marker; else large on a large marker; else medium
TierByPrecedence(modelID) ==
    LET id == ToLowerCase(modelID)
        HasAny(markers) == \E mk \in markers : Includes(id, mk)
    IN  IF modelID \in DOMAIN MODEL_SIZE THEN MODEL_SIZE[modelID]
        ELSE IF HasAny({"haiku", "mini", "nano", "flash"}) THEN "small"
        ELSE IF HasAny({"opus", "o3"}) THEN "large"
        ELSE "medium"

\* C18: classifyModel gives a table key the table's tier; otherwise small
\* when the lower-cased identifier has a small marker, even next to a large
\* one; otherwise large when it has a large marker; otherwise medium.
ClassifierPrecedence ==
    (probe.fn = "classifyModel" /\ probe.pc = 1)
        => probe.result = TierByPrecedence(probe.modelID)

\* what holds of classifyModel: the stated precedence for every identifier
\* that is not the name of a property inherited from Object.prototype
ClassifierPrecedenceOffPrototype ==
    (probe.fn = "classifyModel" /\ probe.pc = 1
       /\ probe.modelID \notin ObjectPrototypeKeys)
        => probe.result = TierByPrecedence(probe.modelID)

\* C19: no step removes or starts afresh a SessionStats or removes a
\* snapshot entry, and a session that has a SessionStats with at least one
\* message still has one after every step, so that its report query does
\* not go back to the "no data yet" response.
NoEviction ==
    [][/\ \A sid \in DOMAIN sessions :
             /\ MapHas(sessions', sid)
             /\ sessions'[sid].firstSeen = sessions[sid].firstSeen
             /\ sessions'[sid].messages >= sessions[sid].messages
             /\ Len(sessions'[sid].models) >= Len(sessions[sid].models)
             /\ sessions[sid].messages >= 1
                  => execute(sessions', sid, gridEnv', clock') # NoData
       /\ \A key \in DOMAIN messageSnapshots : MapHas(messageSnapshots', key)
      ]_vars

\* a report was returned for a session after the host announced the removal
\* of one of its recorded messages
ReportAfterRemoval ==
    /\ lastEvent.type = "message.removed"
    /\ response # NoCall
    /\ response.sessionID = lastEvent.info.sessionID
    /\ response.result # NoData
    /\ <<lastEvent.info.sessionID, lastEvent.info.id>> \in AppliedPairs

\* the sum of field f over the stored snapshots of the messages in mids of
\* session sid
RECURSIVE StoredSum(_, _, _)
StoredSum(sid, mids, f) ==
    IF mids = {} THEN 0
    ELSE LET mid == CHOOSE x \in mids : TRUE
         IN  Slot(messageSnapshots, <<sid, mid>>)[f]
               + StoredSum(sid, mids \ {mid}, f)

\* C20: in every reachable state, each of the six totals of every session
\* equals the sum of that field over the snapshots now stored for the
\* messages of that session.
TotalsTelescope ==
    \A sid \in DOMAIN sessions : \A f \in Fields :
        SixTotals(sessions[sid])[f]
          = StoredSum(sid, {mid \in MessageIDs : <<sid, mid>> \in AppliedPairs}, f)

\* C21: in every reachable state every SessionStats has a message count of
\* at least 1, and a report query answered "no data yet" was asked for a
\* session that has no SessionStats.
StatsHaveMessages ==
    /\ \A sid \in DOMAIN sessions : sessions[sid].messages >= 1
    /\ (response # NoCall /\ response.result = NoData)
         => ~MapHas(sessions, response.sessionID)

====
